---- MODULE Spec2Model ----
(***************************************************************************)
(* Model of src/bin/edit/localization.rs: the message catalog S_LANG_LUT,  *)
(* the process-wide selected language S_LANG, the one-time selection       *)
(* procedure init() and the accessor loc().                                *)
(*                                                                         *)
(* Representation.  A language tag or a LANG_MAP prefix is a sequence of   *)
(* one-character strings (<<"p","t","-","B","R">> is "pt-BR"), so that     *)
(* prefix tests and ASCII case folding are computed character by           *)
(* character.  A catalog cell is the source literal with every non-ASCII   *)
(* character written as <U+XXXX> (its code point); the source contains no  *)
(* such marker, quote or backslash, so the transcription is injective:     *)
(* two cells are equal here iff they are equal in the source, and a cell   *)
(* is "" here iff it is "" in the source.                                  *)
(***************************************************************************)
EXTENDS Integers, Sequences, FiniteSets, TLC

(***************************************************************************)
(* Bounds of the model.                                                    *)
(***************************************************************************)
\* longest preference sequence handed to init by sys::preferred_languages
MaxPrefs == 2

\* number of runs of init where init is run again
MaxInits == 2

\* longest new preference sequence handed to a later run of init
MaxRerunPrefs == 1

(***************************************************************************)
(* The enumerations, in declaration order.  `x as usize` is the position   *)
(* in the declaration, counted from 0.                                     *)
(***************************************************************************)
LocId ==
    << "Ctrl", "Alt", "Shift",
       "Ok", "Yes", "No", "Cancel", "Always",
       "File", "FileNew", "FileOpen", "FileSave", "FileSaveAs", "FileClose", "FileExit",
       "Edit", "EditUndo", "EditRedo", "EditCut", "EditCopy", "EditPaste", "EditFind", "EditReplace",
       "View", "ViewFocusStatusbar", "ViewWordWrap",
       "Help", "HelpAbout",
       "UnsavedChangesDialogTitle", "UnsavedChangesDialogDescription",
       "UnsavedChangesDialogYes", "UnsavedChangesDialogNo",
       "AboutDialogTitle", "AboutDialogVersion",
       "LargeClipboardWarningLine1", "LargeClipboardWarningLine2",
       "LargeClipboardWarningLine3", "SuperLargeClipboardWarning",
       "WarningDialogTitle",
       "ErrorDialogTitle", "ErrorIcuMissing",
       "SearchNeedleLabel", "SearchReplacementLabel", "SearchMatchCase",
       "SearchWholeWord", "SearchUseRegex", "SearchReplaceAll", "SearchClose",
       "EncodingReopen", "EncodingConvert",
       "IndentationTabs", "IndentationSpaces",
       "SaveAsDialogPathLabel", "SaveAsDialogNameLabel",
       "FileOverwriteWarning", "FileOverwriteWarningDescription",
       "Count" >>

LangId ==
    << "en", "de", "es", "fr", "it", "ja", "ko", "pt_br", "ru", "zh_hans", "zh_hant", "vi",
       "Count" >>

\* every value of the public type LocId, the synthetic Count included
LocIdValues == { LocId[i] : i \in 1..Len(LocId) }

\* every value of the type LangId, the synthetic Count included
LangIdValues == { LangId[i] : i \in 1..Len(LangId) }

\* the discriminant of every LocId value
LocIdDiscriminant == [id \in LocIdValues |-> (CHOOSE i \in 1..Len(LocId) : LocId[i] = id) - 1]

\* the discriminant of every LangId value
LangIdDiscriminant == [lg \in LangIdValues |-> (CHOOSE i \in 1..Len(LangId) : LangId[i] = lg) - 1]

\* `id as usize`
LocIdAsUsize(id) == LocIdDiscriminant[id]

\* `lang as usize`
LangIdAsUsize(lg) == LangIdDiscriminant[lg]

(***************************************************************************)
(* The catalog: one definition per row, in the order of LocId, each row    *)
(* in the order of LangId.                                                 *)
(***************************************************************************)
\* Ctrl (source lines 119-132)
S_LANG_LUT_Ctrl ==
    << "Ctrl",
       "Strg",
       "Ctrl",
       "Ctrl",
       "Ctrl",
       "Ctrl",
       "Ctrl",
       "Ctrl",
       "Ctrl",
       "Ctrl",
       "Ctrl",
       "Ctrl" >>

\* Alt (source lines 134-147)
S_LANG_LUT_Alt ==
    << "Alt",
       "Alt",
       "Alt",
       "Alt",
       "Alt",
       "Alt",
       "Alt",
       "Alt",
       "Alt",
       "Alt",
       "Alt",
       "Alt" >>

\* Shift (source lines 149-162)
S_LANG_LUT_Shift ==
    << "Shift",
       "Umschalt",
       "May<U+00FA>s",
       "Maj",
       "Maiusc",
       "Shift",
       "Shift",
       "Shift",
       "Shift",
       "Shift",
       "Shift",
       "Shift" >>

\* the row Ok with the translation of the last language left empty
S_LANG_LUT_Ok_vi_missing ==
    << "Ok",
       "OK",
       "Aceptar",
       "OK",
       "OK",
       "OK",
       "<U+D655><U+C778>",
       "OK",
       "<U+041E><U+041A>",
       "<U+786E><U+5B9A>",
       "<U+78BA><U+5B9A>",
       "" >>

\* Ok (source lines 165-178)
S_LANG_LUT_Ok ==
    << "Ok",
       "OK",
       "Aceptar",
       "OK",
       "OK",
       "OK",
       "<U+D655><U+C778>",
       "OK",
       "<U+041E><U+041A>",
       "<U+786E><U+5B9A>",
       "<U+78BA><U+5B9A>",
       "Ok" >>

\* Yes (source lines 180-193)
S_LANG_LUT_Yes ==
    << "Yes",
       "Ja",
       "S<U+00ED>",
       "Oui",
       "S<U+00EC>",
       "<U+306F><U+3044>",
       "<U+C608>",
       "Sim",
       "<U+0414><U+0430>",
       "<U+662F>",
       "<U+662F>",
       "<U+0110><U+1ED3>ng <U+00FD>" >>

\* No (source lines 195-208)
S_LANG_LUT_No ==
    << "No",
       "Nein",
       "No",
       "Non",
       "No",
       "<U+3044><U+3044><U+3048>",
       "<U+C544><U+B2C8><U+C624>",
       "N<U+00E3>o",
       "<U+041D><U+0435><U+0442>",
       "<U+5426>",
       "<U+5426>",
       "Kh<U+00F4>ng" >>

\* Cancel (source lines 210-223)
S_LANG_LUT_Cancel ==
    << "Cancel",
       "Abbrechen",
       "Cancelar",
       "Annuler",
       "Annulla",
       "<U+30AD><U+30E3><U+30F3><U+30BB><U+30EB>",
       "<U+CDE8><U+C18C>",
       "Cancelar",
       "<U+041E><U+0442><U+043C><U+0435><U+043D><U+0430>",
       "<U+53D6><U+6D88>",
       "<U+53D6><U+6D88>",
       "Hu<U+1EF7>" >>

\* Always (source lines 225-238)
S_LANG_LUT_Always ==
    << "Always",
       "Immer",
       "Siempre",
       "Toujours",
       "Sempre",
       "<U+5E38><U+306B>",
       "<U+D56D><U+C0C1>",
       "Sempre",
       "<U+0412><U+0441><U+0435><U+0433><U+0434><U+0430>",
       "<U+603B><U+662F>",
       "<U+7E3D><U+662F>",
       "Lu<U+00F4>n lu<U+00F4>n" >>

\* File (source lines 241-254)
S_LANG_LUT_File ==
    << "File",
       "Datei",
       "Archivo",
       "Fichier",
       "File",
       "<U+30D5><U+30A1><U+30A4><U+30EB>",
       "<U+D30C><U+C77C>",
       "Arquivo",
       "<U+0424><U+0430><U+0439><U+043B>",
       "<U+6587><U+4EF6>",
       "<U+6A94><U+6848>",
       "T<U+1EAD>p tin" >>

\* FileNew (source lines 256-269)
S_LANG_LUT_FileNew ==
    << "New File<U+2026>",
       "Neue Datei<U+2026>",
       "Nuevo archivo<U+2026>",
       "Nouveau fichier<U+2026>",
       "Nuovo file<U+2026>",
       "<U+65B0><U+898F><U+30D5><U+30A1><U+30A4><U+30EB><U+2026>",
       "<U+C0C8> <U+D30C><U+C77C><U+2026>",
       "Novo arquivo<U+2026>",
       "<U+041D><U+043E><U+0432><U+044B><U+0439> <U+0444><U+0430><U+0439><U+043B><U+2026>",
       "<U+65B0><U+5EFA><U+6587><U+4EF6><U+2026>",
       "<U+65B0><U+589E><U+6A94><U+6848><U+2026>",
       "T<U+1EAD>p tin m<U+1EDB>i<U+2026>" >>

\* FileOpen (source lines 271-284)
S_LANG_LUT_FileOpen ==
    << "Open File<U+2026>",
       "Datei <U+00F6>ffnen<U+2026>",
       "Abrir archivo<U+2026>",
       "Ouvrir un fichier<U+2026>",
       "Apri file<U+2026>",
       "<U+30D5><U+30A1><U+30A4><U+30EB><U+3092><U+958B><U+304F><U+2026>",
       "<U+D30C><U+C77C> <U+C5F4><U+AE30><U+2026>",
       "Abrir arquivo<U+2026>",
       "<U+041E><U+0442><U+043A><U+0440><U+044B><U+0442><U+044C> <U+0444><U+0430><U+0439><U+043B><U+2026>",
       "<U+6253><U+5F00><U+6587><U+4EF6><U+2026>",
       "<U+958B><U+555F><U+6A94><U+6848><U+2026>",
       "M<U+1EDF> t<U+1EAD>p tin<U+2026>" >>

\* FileSave (source lines 286-299)
S_LANG_LUT_FileSave ==
    << "Save",
       "Speichern",
       "Guardar",
       "Enregistrer",
       "Salva",
       "<U+4FDD><U+5B58>",
       "<U+C800><U+C7A5>",
       "Salvar",
       "<U+0421><U+043E><U+0445><U+0440><U+0430><U+043D><U+0438><U+0442><U+044C>",
       "<U+4FDD><U+5B58>",
       "<U+5132><U+5B58>",
       "L<U+01B0>u" >>

\* FileSaveAs (source lines 301-314)
S_LANG_LUT_FileSaveAs ==
    << "Save As<U+2026>",
       "Speichern unter<U+2026>",
       "Guardar como<U+2026>",
       "Enregistrer sous<U+2026>",
       "Salva come<U+2026>",
       "<U+540D><U+524D><U+3092><U+4ED8><U+3051><U+3066><U+4FDD><U+5B58><U+2026>",
       "<U+B2E4><U+B978> <U+C774><U+B984><U+C73C><U+B85C> <U+C800><U+C7A5><U+2026>",
       "Salvar como<U+2026>",
       "<U+0421><U+043E><U+0445><U+0440><U+0430><U+043D><U+0438><U+0442><U+044C> <U+043A><U+0430><U+043A><U+2026>",
       "<U+53E6><U+5B58><U+4E3A><U+2026>",
       "<U+53E6><U+5B58><U+65B0><U+6A94><U+2026>",
       "L<U+01B0>u nh<U+01B0><U+2026>" >>

\* FileClose (source lines 316-329)
S_LANG_LUT_FileClose ==
    << "Close Editor",
       "Editor schlie<U+00DF>en",
       "Cerrar editor",
       "Fermer l'<U+00E9>diteur",
       "Chiudi editor",
       "<U+30A8><U+30C7><U+30A3><U+30BF><U+30FC><U+3092><U+9589><U+3058><U+308B>",
       "<U+D3B8><U+C9D1><U+AE30> <U+B2EB><U+AE30>",
       "Fechar editor",
       "<U+0417><U+0430><U+043A><U+0440><U+044B><U+0442><U+044C> <U+0440><U+0435><U+0434><U+0430><U+043A><U+0442><U+043E><U+0440>",
       "<U+5173><U+95ED><U+7F16><U+8F91><U+5668>",
       "<U+95DC><U+9589><U+7DE8><U+8F2F><U+5668>",
       "<U+0110><U+00F3>ng editor" >>

\* FileExit (source lines 331-344)
S_LANG_LUT_FileExit ==
    << "Exit",
       "Beenden",
       "Salir",
       "Quitter",
       "Esci",
       "<U+7D42><U+4E86>",
       "<U+C885><U+B8CC>",
       "Sair",
       "<U+0412><U+044B><U+0445><U+043E><U+0434>",
       "<U+9000><U+51FA>",
       "<U+9000><U+51FA>",
       "Tho<U+00E1>t" >>

\* Edit (source lines 347-360)
S_LANG_LUT_Edit ==
    << "Edit",
       "Bearbeiten",
       "Editar",
       "<U+00C9>dition",
       "Modifica",
       "<U+7DE8><U+96C6>",
       "<U+D3B8><U+C9D1>",
       "Editar",
       "<U+041F><U+0440><U+0430><U+0432><U+043A><U+0430>",
       "<U+7F16><U+8F91>",
       "<U+7DE8><U+8F2F>",
       "Ch<U+1EC9>nh s<U+1EED>a" >>

\* EditUndo (source lines 362-375)
S_LANG_LUT_EditUndo ==
    << "Undo",
       "R<U+00FC>ckg<U+00E4>ngig",
       "Deshacer",
       "Annuler",
       "Annulla",
       "<U+5143><U+306B><U+623B><U+3059>",
       "<U+C2E4><U+D589> <U+CDE8><U+C18C>",
       "Desfazer",
       "<U+041E><U+0442><U+043C><U+0435><U+043D><U+0438><U+0442><U+044C>",
       "<U+64A4><U+9500>",
       "<U+5FA9><U+539F>",
       "Ho<U+00E0>n t<U+00E1>c" >>

\* EditRedo (source lines 377-390)
S_LANG_LUT_EditRedo ==
    << "Redo",
       "Wiederholen",
       "Rehacer",
       "R<U+00E9>tablir",
       "Ripeti",
       "<U+3084><U+308A><U+76F4><U+3057>",
       "<U+B2E4><U+C2DC> <U+C2E4><U+D589>",
       "Refazer",
       "<U+041F><U+043E><U+0432><U+0442><U+043E><U+0440><U+0438><U+0442><U+044C>",
       "<U+91CD><U+505A>",
       "<U+91CD><U+505A>",
       "Th<U+1EF1>c hi<U+1EC7>n l<U+1EA1>i" >>

\* EditCut (source lines 392-405)
S_LANG_LUT_EditCut ==
    << "Cut",
       "Ausschneiden",
       "Cortar",
       "Couper",
       "Taglia",
       "<U+5207><U+308A><U+53D6><U+308A>",
       "<U+C798><U+B77C><U+B0B4><U+AE30>",
       "Cortar",
       "<U+0412><U+044B><U+0440><U+0435><U+0437><U+0430><U+0442><U+044C>",
       "<U+526A><U+5207>",
       "<U+526A><U+4E0B>",
       "C<U+1EAF>t" >>

\* EditCopy (source lines 407-420)
S_LANG_LUT_EditCopy ==
    << "Copy",
       "Kopieren",
       "Copiar",
       "Copier",
       "Copia",
       "<U+30B3><U+30D4><U+30FC>",
       "<U+BCF5><U+C0AC>",
       "Copiar",
       "<U+041A><U+043E><U+043F><U+0438><U+0440><U+043E><U+0432><U+0430><U+0442><U+044C>",
       "<U+590D><U+5236>",
       "<U+8907><U+88FD>",
       "Ch<U+00E9>p" >>

\* EditPaste (source lines 422-435)
S_LANG_LUT_EditPaste ==
    << "Paste",
       "Einf<U+00FC>gen",
       "Pegar",
       "Coller",
       "Incolla",
       "<U+8CBC><U+308A><U+4ED8><U+3051>",
       "<U+BD99><U+C5EC><U+B123><U+AE30>",
       "Colar",
       "<U+0412><U+0441><U+0442><U+0430><U+0432><U+0438><U+0442><U+044C>",
       "<U+7C98><U+8D34>",
       "<U+8CBC><U+4E0A>",
       "D<U+00E1>n" >>

\* EditFind (source lines 437-450)
S_LANG_LUT_EditFind ==
    << "Find",
       "Suchen",
       "Buscar",
       "Rechercher",
       "Trova",
       "<U+691C><U+7D22>",
       "<U+CC3E><U+AE30>",
       "Encontrar",
       "<U+041D><U+0430><U+0439><U+0442><U+0438>",
       "<U+67E5><U+627E>",
       "<U+5C0B><U+627E>",
       "T<U+00EC>m ki<U+1EBF>m" >>

\* EditReplace (source lines 452-465)
S_LANG_LUT_EditReplace ==
    << "Replace",
       "Ersetzen",
       "Reemplazar",
       "Remplacer",
       "Sostituisci",
       "<U+7F6E><U+63DB>",
       "<U+BC14><U+AFB8><U+AE30>",
       "Substituir",
       "<U+0417><U+0430><U+043C><U+0435><U+043D><U+0438><U+0442><U+044C>",
       "<U+66FF><U+6362>",
       "<U+53D6><U+4EE3>",
       "Thay th<U+1EBF>" >>

\* View (source lines 468-481)
S_LANG_LUT_View ==
    << "View",
       "Ansicht",
       "Ver",
       "Affichage",
       "Visualizza",
       "<U+8868><U+793A>",
       "<U+BCF4><U+AE30>",
       "Exibir",
       "<U+0412><U+0438><U+0434>",
       "<U+89C6><U+56FE>",
       "<U+6AA2><U+8996>",
       "Xem" >>

\* ViewFocusStatusbar (source lines 483-496)
S_LANG_LUT_ViewFocusStatusbar ==
    << "Focus Statusbar",
       "Statusleiste fokussieren",
       "Enfocar barra de estado",
       "Activer la barre d<U+2019><U+00E9>tat",
       "Attiva barra di stato",
       "<U+30B9><U+30C6><U+30FC><U+30BF><U+30B9><U+30D0><U+30FC><U+306B><U+30D5><U+30A9><U+30FC><U+30AB><U+30B9>",
       "<U+C0C1><U+D0DC> <U+D45C><U+C2DC><U+C904><U+B85C> <U+D3EC><U+CEE4><U+C2A4> <U+C774><U+B3D9>",
       "Focar barra de status",
       "<U+0424><U+043E><U+043A><U+0443><U+0441> <U+043D><U+0430> <U+0441><U+0442><U+0440><U+043E><U+043A><U+0443> <U+0441><U+043E><U+0441><U+0442><U+043E><U+044F><U+043D><U+0438><U+044F>",
       "<U+805A><U+7126><U+72B6><U+6001><U+680F>",
       "<U+805A><U+7126><U+72C0><U+614B><U+5217>",
       "V<U+00E0>o thanh tr<U+1EA1>ng th<U+00E1>i" >>

\* ViewWordWrap (source lines 498-511)
S_LANG_LUT_ViewWordWrap ==
    << "Word Wrap",
       "Zeilenumbruch",
       "Ajuste de l<U+00ED>nea",
       "Retour <U+00E0> la ligne",
       "A capo automatico",
       "<U+6298><U+308A><U+8FD4><U+3057>",
       "<U+C790><U+B3D9> <U+C904> <U+BC14><U+AFC8>",
       "Quebra de linha",
       "<U+041F><U+0435><U+0440><U+0435><U+043D><U+043E><U+0441> <U+0441><U+043B><U+043E><U+0432>",
       "<U+81EA><U+52A8><U+6362><U+884C>",
       "<U+81EA><U+52D5><U+63DB><U+884C>",
       "Ng<U+1EAF>t d<U+00F2>ng" >>

\* Help (source lines 514-527)
S_LANG_LUT_Help ==
    << "Help",
       "Hilfe",
       "Ayuda",
       "Aide",
       "Aiuto",
       "<U+30D8><U+30EB><U+30D7>",
       "<U+B3C4><U+C6C0><U+B9D0>",
       "Ajuda",
       "<U+041F><U+043E><U+043C><U+043E><U+0449><U+044C>",
       "<U+5E2E><U+52A9>",
       "<U+5E6B><U+52A9>",
       "Tr<U+1EE3> gi<U+00FA>p" >>

\* HelpAbout (source lines 529-542)
S_LANG_LUT_HelpAbout ==
    << "About",
       "<U+00DC>ber",
       "Acerca de",
       "<U+00C0> propos",
       "Informazioni",
       "<U+60C5><U+5831>",
       "<U+C815><U+BCF4>",
       "Sobre",
       "<U+041E> <U+043F><U+0440><U+043E><U+0433><U+0440><U+0430><U+043C><U+043C><U+0435>",
       "<U+5173><U+4E8E>",
       "<U+95DC><U+65BC>",
       "Gi<U+1EDB>i thi<U+1EC7>u" >>

\* UnsavedChangesDialogTitle (source lines 545-558)
S_LANG_LUT_UnsavedChangesDialogTitle ==
    << "Unsaved Changes",
       "Ungespeicherte <U+00C4>nderungen",
       "Cambios sin guardar",
       "Modifications non enregistr<U+00E9>es",
       "Modifiche non salvate",
       "<U+672A><U+4FDD><U+5B58><U+306E><U+5909><U+66F4>",
       "<U+C800><U+C7A5><U+B418><U+C9C0> <U+C54A><U+C740> <U+BCC0><U+ACBD> <U+C0AC><U+D56D>",
       "Altera<U+00E7><U+00F5>es n<U+00E3>o salvas",
       "<U+041D><U+0435><U+0441><U+043E><U+0445><U+0440><U+0430><U+043D><U+0435><U+043D><U+043D><U+044B><U+0435> <U+0438><U+0437><U+043C><U+0435><U+043D><U+0435><U+043D><U+0438><U+044F>",
       "<U+672A><U+4FDD><U+5B58><U+7684><U+66F4><U+6539>",
       "<U+672A><U+5132><U+5B58><U+7684><U+8B8A><U+66F4>",
       "Thay <U+0111><U+1ED5>i ch<U+01B0>a <U+0111><U+01B0><U+1EE3>c l<U+01B0>u" >>

\* UnsavedChangesDialogDescription (source lines 560-573)
S_LANG_LUT_UnsavedChangesDialogDescription ==
    << "Do you want to save the changes you made?",
       "M<U+00F6>chten Sie die vorgenommenen <U+00C4>nderungen speichern?",
       "<U+00BF>Desea guardar los cambios realizados?",
       "Voulez-vous enregistrer les modifications apport<U+00E9>es<U+00A0>?",
       "Vuoi salvare le modifiche apportate?",
       "<U+5909><U+66F4><U+5185><U+5BB9><U+3092><U+4FDD><U+5B58><U+3057><U+307E><U+3059><U+304B><U+FF1F>",
       "<U+BCC0><U+ACBD><U+D55C> <U+B0B4><U+C6A9><U+C744> <U+C800><U+C7A5><U+D558><U+C2DC><U+ACA0><U+C2B5><U+B2C8><U+AE4C>?",
       "Deseja salvar as altera<U+00E7><U+00F5>es feitas?",
       "<U+0412><U+044B> <U+0445><U+043E><U+0442><U+0438><U+0442><U+0435> <U+0441><U+043E><U+0445><U+0440><U+0430><U+043D><U+0438><U+0442><U+044C> <U+0432><U+043D><U+0435><U+0441><U+0451><U+043D><U+043D><U+044B><U+0435> <U+0438><U+0437><U+043C><U+0435><U+043D><U+0435><U+043D><U+0438><U+044F>?",
       "<U+60A8><U+8981><U+4FDD><U+5B58><U+6240><U+505A><U+7684><U+66F4><U+6539><U+5417><U+FF1F>",
       "<U+60A8><U+8981><U+4FDD><U+5B58><U+6240><U+505A><U+7684><U+8B8A><U+66F4><U+55CE><U+FF1F>",
       "B<U+1EA1>n c<U+00F3> mu<U+00F4>n l<U+01B0>u c<U+00E1>c thay <U+0111><U+1ED5>i <U+0111><U+00E3> th<U+1EF1>c hi<U+1EC7>n?" >>

\* UnsavedChangesDialogYes (source lines 575-588)
S_LANG_LUT_UnsavedChangesDialogYes ==
    << "Save",
       "Speichern",
       "Guardar",
       "Enregistrer",
       "Salva",
       "<U+4FDD><U+5B58>",
       "<U+C800><U+C7A5>",
       "Salvar",
       "<U+0421><U+043E><U+0445><U+0440><U+0430><U+043D><U+0438><U+0442><U+044C>",
       "<U+4FDD><U+5B58>",
       "<U+5132><U+5B58>",
       "L<U+01B0>u" >>

\* UnsavedChangesDialogNo (source lines 590-603)
S_LANG_LUT_UnsavedChangesDialogNo ==
    << "Don't Save",
       "Nicht speichern",
       "No guardar",
       "Ne pas enregistrer",
       "Non salvare",
       "<U+4FDD><U+5B58><U+3057><U+306A><U+3044>",
       "<U+C800><U+C7A5> <U+C548> <U+D568>",
       "N<U+00E3>o salvar",
       "<U+041D><U+0435> <U+0441><U+043E><U+0445><U+0440><U+0430><U+043D><U+044F><U+0442><U+044C>",
       "<U+4E0D><U+4FDD><U+5B58>",
       "<U+4E0D><U+5132><U+5B58>",
       "Kh<U+00F4>ng l<U+01B0>u" >>

\* AboutDialogTitle (source lines 606-619)
S_LANG_LUT_AboutDialogTitle ==
    << "About",
       "<U+00DC>ber",
       "Acerca de",
       "<U+00C0> propos",
       "Informazioni",
       "<U+60C5><U+5831>",
       "<U+C815><U+BCF4>",
       "Sobre",
       "<U+041E> <U+043F><U+0440><U+043E><U+0433><U+0440><U+0430><U+043C><U+043C><U+0435>",
       "<U+5173><U+4E8E>",
       "<U+95DC><U+65BC>",
       "Gi<U+1EDB>i thi<U+1EC7>u" >>

\* AboutDialogVersion (source lines 621-634)
S_LANG_LUT_AboutDialogVersion ==
    << "Version: ",
       "Version: ",
       "Versi<U+00F3>n: ",
       "Version<U+00A0>: ",
       "Versione: ",
       "<U+30D0><U+30FC><U+30B8><U+30E7><U+30F3>: ",
       "<U+BC84><U+C804>: ",
       "Vers<U+00E3>o: ",
       "<U+0412><U+0435><U+0440><U+0441><U+0438><U+044F>: ",
       "<U+7248><U+672C>: ",
       "<U+7248><U+672C>: ",
       "Phi<U+00EA>n b<U+1EA3>n: " >>

\* LargeClipboardWarningLine1 (source lines 638-651)
S_LANG_LUT_LargeClipboardWarningLine1 ==
    << "Text you copy is shared with the terminal clipboard.",
       "Der kopierte Text wird mit der Terminal-Zwischenablage geteilt.",
       "El texto que copies se comparte con el portapapeles del terminal.",
       "Le texte que vous copiez est partag<U+00E9> avec le presse-papiers du terminal.",
       "Il testo copiato viene condiviso con gli appunti del terminale.",
       "<U+30B3><U+30D4><U+30FC><U+3057><U+305F><U+30C6><U+30AD><U+30B9><U+30C8><U+306F><U+30BF><U+30FC><U+30DF><U+30CA><U+30EB><U+306E><U+30AF><U+30EA><U+30C3><U+30D7><U+30DC><U+30FC><U+30C9><U+3068><U+5171><U+6709><U+3055><U+308C><U+307E><U+3059><U+3002>",
       "<U+BCF5><U+C0AC><U+D55C> <U+D14D><U+C2A4><U+D2B8><U+AC00> <U+D130><U+BBF8><U+B110> <U+D074><U+B9BD><U+BCF4><U+B4DC><U+C640> <U+ACF5><U+C720><U+B429><U+B2C8><U+B2E4>.",
       "O texto copiado <U+00E9> compartilhado com a <U+00E1>rea de transfer<U+00EA>ncia do terminal.",
       "<U+0421><U+043A><U+043E><U+043F><U+0438><U+0440><U+043E><U+0432><U+0430><U+043D><U+043D><U+044B><U+0439> <U+0442><U+0435><U+043A><U+0441><U+0442> <U+043F><U+0435><U+0440><U+0435><U+0434><U+0430><U+0451><U+0442><U+0441><U+044F> <U+0432> <U+0431><U+0443><U+0444><U+0435><U+0440> <U+043E><U+0431><U+043C><U+0435><U+043D><U+0430> <U+0442><U+0435><U+0440><U+043C><U+0438><U+043D><U+0430><U+043B><U+0430>.",
       "<U+4F60><U+590D><U+5236><U+7684><U+6587><U+672C><U+5C06><U+5171><U+4EAB><U+5230><U+7EC8><U+7AEF><U+526A><U+8D34><U+677F><U+3002>",
       "<U+60A8><U+8907><U+88FD><U+7684><U+6587><U+5B57><U+5C07><U+6703><U+8207><U+7D42><U+7AEF><U+6A5F><U+526A><U+8CBC><U+7C3F><U+5206><U+4EAB><U+3002>",
       "V<U+0103>n b<U+1EA3>n sao ch<U+00E9>p <U+0111><U+01B0><U+1EE3>c chia s<U+1EBB> v<U+1EDB>i clipboard c<U+1EE7>a h<U+1ED9>p l<U+1EC7>nh terminal." >>

\* LargeClipboardWarningLine2 (source lines 653-666)
S_LANG_LUT_LargeClipboardWarningLine2 ==
    << "You copied {size} which may take a long time to share.",
       "Sie haben {size} kopiert, das Weitergeben k<U+00F6>nnte lange dauern.",
       "Copiaste {size}, lo que puede tardar en compartirse.",
       "Vous avez copi<U+00E9> {size}, ce qui peut <U+00EA>tre long <U+00E0> partager.",
       "Hai copiato {size}, potrebbe richiedere molto tempo per condividerlo.",
       "{size} <U+3092><U+30B3><U+30D4><U+30FC><U+3057><U+307E><U+3057><U+305F><U+3002><U+5171><U+6709><U+306B><U+6642><U+9593><U+304C><U+304B><U+304B><U+308B><U+53EF><U+80FD><U+6027><U+304C><U+3042><U+308A><U+307E><U+3059><U+3002>",
       "{size}<U+B97C> <U+BCF5><U+C0AC><U+D588><U+C2B5><U+B2C8><U+B2E4>. <U+ACF5><U+C720><U+D558><U+B294> <U+B370> <U+C2DC><U+AC04><U+C774> <U+C624><U+B798> <U+AC78><U+B9B4> <U+C218> <U+C788><U+C2B5><U+B2C8><U+B2E4>.",
       "Voc<U+00EA> copiou {size}, o que pode demorar para compartilhar.",
       "<U+0412><U+044B> <U+0441><U+043A><U+043E><U+043F><U+0438><U+0440><U+043E><U+0432><U+0430><U+043B><U+0438> {size}; <U+043F><U+0435><U+0440><U+0435><U+0434><U+0430><U+0447><U+0430> <U+043C><U+043E><U+0436><U+0435><U+0442> <U+0437><U+0430><U+043D><U+044F><U+0442><U+044C> <U+043C><U+043D><U+043E><U+0433><U+043E> <U+0432><U+0440><U+0435><U+043C><U+0435><U+043D><U+0438>.",
       "<U+4F60><U+590D><U+5236><U+4E86> {size}<U+FF0C><U+5171><U+4EAB><U+53EF><U+80FD><U+9700><U+8981><U+8F83><U+957F><U+65F6><U+95F4><U+3002>",
       "<U+60A8><U+5DF2><U+8907><U+88FD> {size}<U+FF0C><U+5171><U+4EAB><U+53EF><U+80FD><U+9700><U+8981><U+8F03><U+9577><U+6642><U+9593><U+3002>",
       "B<U+1EA1>n <U+0111><U+00E3> sao ch<U+00E9>p {size}, c<U+00F3> th<U+1EC3> m<U+1EA5>t m<U+1ED9>t l<U+00FA>c <U+0111><U+1EC3> chia s<U+1EBB>." >>

\* LargeClipboardWarningLine3 (source lines 668-681)
S_LANG_LUT_LargeClipboardWarningLine3 ==
    << "Do you want to send it anyway?",
       "M<U+00F6>chten Sie es trotzdem senden?",
       "<U+00BF>Desea enviarlo de todas formas?",
       "Voulez-vous quand m<U+00EA>me l<U+2019>envoyer?",
       "Vuoi inviarlo comunque?",
       "<U+305D><U+308C><U+3067><U+3082><U+9001><U+4FE1><U+3057><U+307E><U+3059><U+304B><U+FF1F>",
       "<U+ADF8><U+B798><U+B3C4> <U+C804><U+C1A1><U+D558><U+C2DC><U+ACA0><U+C2B5><U+B2C8><U+AE4C>?",
       "Deseja enviar mesmo assim?",
       "<U+041E><U+0442><U+043F><U+0440><U+0430><U+0432><U+0438><U+0442><U+044C> <U+0432> <U+043B><U+044E><U+0431><U+043E><U+043C> <U+0441><U+043B><U+0443><U+0447><U+0430><U+0435>?",
       "<U+4ECD><U+8981><U+53D1><U+9001><U+5417><U+FF1F>",
       "<U+4ECD><U+8981><U+50B3><U+9001><U+55CE><U+FF1F>",
       "B<U+1EA1>n c<U+00F3> mu<U+1ED1>n ti<U+1EBF>p t<U+1EE5>c g<U+1EED>i <U+0111>i kh<U+00F4>ng?" >>

\* SuperLargeClipboardWarning (source lines 683-696)
S_LANG_LUT_SuperLargeClipboardWarning ==
    << "The text you copied is too large to be shared.",
       "Der kopierte Text ist zu gro<U+00DF>, um geteilt zu werden.",
       "El texto que copiaste es demasiado grande para compartirse.",
       "Le texte que vous avez copi<U+00E9> est trop volumineux pour <U+00EA>tre partag<U+00E9>.",
       "Il testo copiato <U+00E8> troppo grande per essere condiviso.",
       "<U+30B3><U+30D4><U+30FC><U+3057><U+305F><U+30C6><U+30AD><U+30B9><U+30C8><U+306F><U+5927><U+304D><U+3059><U+304E><U+3066><U+5171><U+6709><U+3067><U+304D><U+307E><U+305B><U+3093><U+3002>",
       "<U+BCF5><U+C0AC><U+D55C> <U+D14D><U+C2A4><U+D2B8><U+AC00> <U+B108><U+BB34> <U+CEE4><U+C11C> <U+ACF5><U+C720><U+D560> <U+C218> <U+C5C6><U+C2B5><U+B2C8><U+B2E4>.",
       "O texto copiado <U+00E9> grande demais para ser compartilhado.",
       "<U+0421><U+043A><U+043E><U+043F><U+0438><U+0440><U+043E><U+0432><U+0430><U+043D><U+043D><U+044B><U+0439> <U+0442><U+0435><U+043A><U+0441><U+0442> <U+0441><U+043B><U+0438><U+0448><U+043A><U+043E><U+043C> <U+0432><U+0435><U+043B><U+0438><U+043A> <U+0434><U+043B><U+044F> <U+043F><U+0435><U+0440><U+0435><U+0434><U+0430><U+0447><U+0438>.",
       "<U+4F60><U+590D><U+5236><U+7684><U+6587><U+672C><U+8FC7><U+5927><U+FF0C><U+65E0><U+6CD5><U+5171><U+4EAB><U+3002>",
       "<U+60A8><U+8907><U+88FD><U+7684><U+6587><U+5B57><U+904E><U+5927><U+FF0C><U+7121><U+6CD5><U+5206><U+4EAB><U+3002>",
       "V<U+0103>n b<U+1EA3>n sao ch<U+00E9>p qu<U+00E1> l<U+1EDB>n <U+0111><U+1EC3> chia s<U+1EBB>." >>

\* WarningDialogTitle (source lines 699-712)
S_LANG_LUT_WarningDialogTitle ==
    << "Warning",
       "Warnung",
       "Advertencia",
       "Avertissement",
       "Avviso",
       "<U+8B66><U+544A>",
       "<U+ACBD><U+ACE0>",
       "Aviso",
       "<U+041F><U+0440><U+0435><U+0434><U+0443><U+043F><U+0440><U+0435><U+0436><U+0434><U+0435><U+043D><U+0438><U+0435>",
       "<U+8B66><U+544A>",
       "<U+8B66><U+544A>",
       "C<U+1EA3>nh b<U+00E1>o" >>

\* ErrorDialogTitle (source lines 715-728)
S_LANG_LUT_ErrorDialogTitle ==
    << "Error",
       "Fehler",
       "Error",
       "Erreur",
       "Errore",
       "<U+30A8><U+30E9><U+30FC>",
       "<U+C624><U+B958>",
       "Erro",
       "<U+041E><U+0448><U+0438><U+0431><U+043A><U+0430>",
       "<U+9519><U+8BEF>",
       "<U+932F><U+8AA4>",
       "L<U+1ED7>i" >>

\* ErrorIcuMissing (source lines 730-743)
S_LANG_LUT_ErrorIcuMissing ==
    << "This operation requires the ICU library",
       "Diese Operation erfordert die ICU-Bibliothek",
       "Esta operaci<U+00F3>n requiere la biblioteca ICU",
       "Cette op<U+00E9>ration n<U+00E9>cessite la biblioth<U+00E8>que ICU",
       "Questa operazione richiede la libreria ICU",
       "<U+3053><U+306E><U+64CD><U+4F5C><U+306B><U+306F>ICU<U+30E9><U+30A4><U+30D6><U+30E9><U+30EA><U+304C><U+5FC5><U+8981><U+3067><U+3059>",
       "<U+C774> <U+C791><U+C5C5><U+C5D0><U+B294> ICU <U+B77C><U+C774><U+BE0C><U+B7EC><U+B9AC><U+AC00> <U+D544><U+C694><U+D569><U+B2C8><U+B2E4>",
       "Esta opera<U+00E7><U+00E3>o requer a biblioteca ICU",
       "<U+042D><U+0442><U+0430> <U+043E><U+043F><U+0435><U+0440><U+0430><U+0446><U+0438><U+044F> <U+0442><U+0440><U+0435><U+0431><U+0443><U+0435><U+0442> <U+043D><U+0430><U+043B><U+0438><U+0447><U+0438><U+044F> <U+0431><U+0438><U+0431><U+043B><U+0438><U+043E><U+0442><U+0435><U+043A><U+0438> ICU",
       "<U+6B64><U+64CD><U+4F5C><U+9700><U+8981> ICU <U+5E93>",
       "<U+6B64><U+64CD><U+4F5C><U+9700><U+8981> ICU <U+5EAB>",
       "Thao t<U+00E1>c n<U+00E0>y y<U+00EA>u c<U+1EA7>u s<U+1EED> d<U+1EE5>ng th<U+01B0> vi<U+1EC7>n ICU." >>

\* SearchNeedleLabel (source lines 746-759)
S_LANG_LUT_SearchNeedleLabel ==
    << "Find:",
       "Suchen:",
       "Buscar:",
       "Rechercher<U+00A0>:",
       "Trova:",
       "<U+691C><U+7D22>:",
       "<U+CC3E><U+AE30>:",
       "Encontrar:",
       "<U+041D><U+0430><U+0439><U+0442><U+0438>:",
       "<U+67E5><U+627E>:",
       "<U+5C0B><U+627E>:",
       "T<U+00EC>m ki<U+1EBF>m:" >>

\* SearchReplacementLabel (source lines 761-774)
S_LANG_LUT_SearchReplacementLabel ==
    << "Replace:",
       "Ersetzen:",
       "Reemplazar:",
       "Remplacer<U+00A0>:",
       "Sostituire:",
       "<U+7F6E><U+63DB>:",
       "<U+BC14><U+AFB8><U+AE30>:",
       "Substituir:",
       "<U+0417><U+0430><U+043C><U+0435><U+043D><U+0430>:",
       "<U+66FF><U+6362>:",
       "<U+66FF><U+63DB>:",
       "Thay th<U+1EBF>:" >>

\* SearchMatchCase (source lines 776-789)
S_LANG_LUT_SearchMatchCase ==
    << "Match Case",
       "Gro<U+00DF>/Klein",
       "May/Min",
       "Casse",
       "Maius/minus",
       "<U+5927>/<U+5C0F><U+6587><U+5B57>",
       "<U+B300><U+C18C><U+BB38><U+C790>",
       "Maius/minus",
       "<U+0420><U+0435><U+0433><U+0438><U+0441><U+0442><U+0440>",
       "<U+533A><U+5206><U+5927><U+5C0F><U+5199>",
       "<U+5340><U+5206><U+5927><U+5C0F><U+5BEB>",
       "Kh<U+1EDB>p HOA/th<U+01B0><U+1EDD>ng:" >>

\* SearchWholeWord (source lines 791-804)
S_LANG_LUT_SearchWholeWord ==
    << "Whole Word",
       "Ganzes Wort",
       "Palabra",
       "Mot entier",
       "Parola",
       "<U+5358><U+8A9E><U+5358><U+4F4D>",
       "<U+C804><U+CCB4> <U+B2E8><U+C5B4>",
       "Palavra",
       "<U+0421><U+043B><U+043E><U+0432><U+043E>",
       "<U+5168><U+5B57><U+5339><U+914D>",
       "<U+5168><U+5B57><U+5339><U+914D>",
       "To<U+00E0>n b<U+1ED9> t<U+1EEB>" >>

\* SearchUseRegex (source lines 806-819)
S_LANG_LUT_SearchUseRegex ==
    << "Use Regex",
       "RegEx",
       "RegEx",
       "RegEx",
       "RegEx",
       "<U+6B63><U+898F><U+8868><U+73FE>",
       "<U+C815><U+ADDC><U+C2DD>",
       "RegEx",
       "RegEx",
       "<U+6B63><U+5219>",
       "<U+6B63><U+5247>",
       "D<U+00F9>ng Regex" >>

\* SearchReplaceAll (source lines 821-834)
S_LANG_LUT_SearchReplaceAll ==
    << "Replace All",
       "Alle ersetzen",
       "Reemplazar todo",
       "Remplacer tout",
       "Sostituisci tutto",
       "<U+3059><U+3079><U+3066><U+7F6E><U+63DB>",
       "<U+BAA8><U+B450> <U+BC14><U+AFB8><U+AE30>",
       "Substituir tudo",
       "<U+0417><U+0430><U+043C><U+0435><U+043D><U+0438><U+0442><U+044C> <U+0432><U+0441><U+0435>",
       "<U+5168><U+90E8><U+66FF><U+6362>",
       "<U+5168><U+90E8><U+53D6><U+4EE3>",
       "Thay th<U+1EBF> h<U+1EBF>t" >>

\* SearchClose (source lines 836-849)
S_LANG_LUT_SearchClose ==
    << "Close",
       "Schlie<U+00DF>en",
       "Cerrar",
       "Fermer",
       "Chiudi",
       "<U+9589><U+3058><U+308B>",
       "<U+B2EB><U+AE30>",
       "Fechar",
       "<U+0417><U+0430><U+043A><U+0440><U+044B><U+0442><U+044C>",
       "<U+5173><U+95ED>",
       "<U+95DC><U+9589>",
       "<U+0110><U+00F3>ng" >>

\* EncodingReopen (source lines 852-865)
S_LANG_LUT_EncodingReopen ==
    << "Reopen with encoding",
       "Mit Kodierung erneut <U+00F6>ffnen",
       "Reabrir con codificaci<U+00F3>n",
       "Rouvrir avec un encodage diff<U+00E9>rent",
       "Riapri con codifica",
       "<U+30A8><U+30F3><U+30B3><U+30FC><U+30C7><U+30A3><U+30F3><U+30B0><U+3067><U+518D><U+5EA6><U+958B><U+304F>",
       "<U+C778><U+CF54><U+B529><U+C73C><U+B85C> <U+B2E4><U+C2DC> <U+C5F4><U+AE30>",
       "Reabrir com codifica<U+00E7><U+00E3>o",
       "<U+041E><U+0442><U+043A><U+0440><U+044B><U+0442><U+044C> <U+0441><U+043D><U+043E><U+0432><U+0430> <U+0441> <U+043A><U+043E><U+0434><U+0438><U+0440><U+043E><U+0432><U+043A><U+043E><U+0439>",
       "<U+4F7F><U+7528><U+7F16><U+7801><U+91CD><U+65B0><U+6253><U+5F00>",
       "<U+4F7F><U+7528><U+7DE8><U+78BC><U+91CD><U+65B0><U+6253><U+958B>",
       "M<U+1EDF> l<U+1EA1>i v<U+1EDB>i b<U+1ED9> m<U+00E3> ho<U+00E1>" >>

\* EncodingConvert (source lines 867-880)
S_LANG_LUT_EncodingConvert ==
    << "Convert to encoding",
       "In Kodierung konvertieren",
       "Convertir a otra codificaci<U+00F3>n",
       "Convertir en encodage",
       "Converti in codifica",
       "<U+30A8><U+30F3><U+30B3><U+30FC><U+30C7><U+30A3><U+30F3><U+30B0><U+306B><U+5909><U+63DB>",
       "<U+C778><U+CF54><U+B529><U+C73C><U+B85C> <U+BCC0><U+D658>",
       "Converter para codifica<U+00E7><U+00E3>o",
       "<U+041F><U+0440><U+0435><U+043E><U+0431><U+0440><U+0430><U+0437><U+043E><U+0432><U+0430><U+0442><U+044C> <U+0432> <U+043A><U+043E><U+0434><U+0438><U+0440><U+043E><U+0432><U+043A><U+0443>",
       "<U+8F6C><U+6362><U+4E3A><U+7F16><U+7801>",
       "<U+8F49><U+63DB><U+70BA><U+7DE8><U+78BC>",
       "Chuy<U+1EC3>n sang b<U+1ED9> m<U+00E3> ho<U+00E1>" >>

\* IndentationTabs (source lines 883-896)
S_LANG_LUT_IndentationTabs ==
    << "Tabs",
       "Tabs",
       "Tabulaciones",
       "Tabulations",
       "Tabulazioni",
       "<U+30BF><U+30D6>",
       "<U+D0ED>",
       "Tabula<U+00E7><U+00F5>es",
       "<U+0422><U+0430><U+0431><U+044B>",
       "<U+5236><U+8868><U+7B26>",
       "<U+88FD><U+8868><U+7B26>",
       "D<U+1EA5>u tab" >>

\* IndentationSpaces (source lines 898-911)
S_LANG_LUT_IndentationSpaces ==
    << "Spaces",
       "Leerzeichen",
       "Espacios",
       "Espaces",
       "Spazi",
       "<U+30B9><U+30DA><U+30FC><U+30B9>",
       "<U+ACF5><U+BC31>",
       "Espa<U+00E7>os",
       "<U+041F><U+0440><U+043E><U+0431><U+0435><U+043B><U+044B>",
       "<U+7A7A><U+683C>",
       "<U+7A7A><U+683C>",
       "D<U+1EA5>u c<U+00E1>ch" >>

\* SaveAsDialogPathLabel (source lines 914-927)
S_LANG_LUT_SaveAsDialogPathLabel ==
    << "Folder:",
       "Ordner:",
       "Carpeta:",
       "Dossier<U+00A0>:",
       "Cartella:",
       "<U+30D5><U+30A9><U+30EB><U+30C0>:",
       "<U+D3F4><U+B354>:",
       "Pasta:",
       "<U+041F><U+0430><U+043F><U+043A><U+0430>:",
       "<U+6587><U+4EF6><U+5939>:",
       "<U+8CC7><U+6599><U+593E>:",
       "Th<U+01B0> m<U+1EE5>c:" >>

\* SaveAsDialogNameLabel (source lines 929-942)
S_LANG_LUT_SaveAsDialogNameLabel ==
    << "File name:",
       "Dateiname:",
       "Nombre de archivo:",
       "Nom de fichier<U+00A0>:",
       "Nome del file:",
       "<U+30D5><U+30A1><U+30A4><U+30EB><U+540D>:",
       "<U+D30C><U+C77C> <U+C774><U+B984>:",
       "Nome do arquivo:",
       "<U+0418><U+043C><U+044F> <U+0444><U+0430><U+0439><U+043B><U+0430>:",
       "<U+6587><U+4EF6><U+540D>:",
       "<U+6A94><U+6848><U+540D><U+7A31>:",
       "T<U+00EA>n t<U+1EAD>p tin:" >>

\* FileOverwriteWarning (source lines 945-958)
S_LANG_LUT_FileOverwriteWarning ==
    << "Confirm Save As",
       "Speichern unter best<U+00E4>tigen",
       "Confirmar Guardar como",
       "Confirmer Enregistrer sous",
       "Conferma Salva con nome",
       "<U+540D><U+524D><U+3092><U+4ED8><U+3051><U+3066><U+4FDD><U+5B58><U+306E><U+78BA><U+8A8D>",
       "<U+B2E4><U+B978> <U+C774><U+B984><U+C73C><U+B85C> <U+C800><U+C7A5> <U+D655><U+C778>",
       "Confirmar Salvar como",
       "<U+041F><U+043E><U+0434><U+0442><U+0432><U+0435><U+0440><U+0434><U+0438><U+0442><U+0435> <U+00AB><U+0421><U+043E><U+0445><U+0440><U+0430><U+043D><U+0438><U+0442><U+044C> <U+043A><U+0430><U+043A><U+2026><U+00BB>",
       "<U+786E><U+8BA4><U+53E6><U+5B58><U+4E3A>",
       "<U+78BA><U+8A8D><U+53E6><U+5B58><U+65B0><U+6A94>",
       "X<U+00E1>c nh<U+1EAD>n L<U+01B0>u nh<U+01B0>" >>

\* FileOverwriteWarningDescription (source lines 960-973)
S_LANG_LUT_FileOverwriteWarningDescription ==
    << "File already exists. Do you want to overwrite it?",
       "Datei existiert bereits. M<U+00F6>chten Sie sie <U+00FC>berschreiben?",
       "El archivo ya existe. <U+00BF>Desea sobrescribirlo?",
       "Le fichier existe d<U+00E9>j<U+00E0>. Voulez-vous l<U+2019><U+00E9>craser?",
       "Il file esiste gi<U+00E0>. Vuoi sovrascriverlo?",
       "<U+30D5><U+30A1><U+30A4><U+30EB><U+306F><U+65E2><U+306B><U+5B58><U+5728><U+3057><U+307E><U+3059><U+3002><U+4E0A><U+66F8><U+304D><U+3057><U+307E><U+3059><U+304B><U+FF1F>",
       "<U+D30C><U+C77C><U+C774> <U+C774><U+BBF8> <U+C874><U+C7AC><U+D569><U+B2C8><U+B2E4>. <U+B36E><U+C5B4><U+C4F0><U+C2DC><U+ACA0><U+C2B5><U+B2C8><U+AE4C>?",
       "O arquivo j<U+00E1> existe. Deseja sobrescrev<U+00EA>-lo?",
       "<U+0424><U+0430><U+0439><U+043B> <U+0443><U+0436><U+0435> <U+0441><U+0443><U+0449><U+0435><U+0441><U+0442><U+0432><U+0443><U+0435><U+0442>. <U+041F><U+0435><U+0440><U+0435><U+0437><U+0430><U+043F><U+0438><U+0441><U+0430><U+0442><U+044C>?",
       "<U+6587><U+4EF6><U+5DF2><U+5B58><U+5728><U+3002><U+8981><U+8986><U+76D6><U+5B83><U+5417><U+FF1F>",
       "<U+6A94><U+6848><U+5DF2><U+5B58><U+5728><U+3002><U+8981><U+8986><U+84CB><U+5B83><U+55CE><U+FF1F>",
       "T<U+1EAD>p tin <U+0111><U+00E3> t<U+1ED3>n t<U+1EA1>i. B<U+1EA1>n c<U+00F3> mu<U+1ED1>n ghi <U+0111><U+00E8> n<U+00F3> kh<U+00F4>ng?" >>

S_LANG_LUT ==
    << S_LANG_LUT_Ctrl,
       S_LANG_LUT_Alt,
       S_LANG_LUT_Shift,
       S_LANG_LUT_Ok,
       S_LANG_LUT_Yes,
       S_LANG_LUT_No,
       S_LANG_LUT_Cancel,
       S_LANG_LUT_Always,
       S_LANG_LUT_File,
       S_LANG_LUT_FileNew,
       S_LANG_LUT_FileOpen,
       S_LANG_LUT_FileSave,
       S_LANG_LUT_FileSaveAs,
       S_LANG_LUT_FileClose,
       S_LANG_LUT_FileExit,
       S_LANG_LUT_Edit,
       S_LANG_LUT_EditUndo,
       S_LANG_LUT_EditRedo,
       S_LANG_LUT_EditCut,
       S_LANG_LUT_EditCopy,
       S_LANG_LUT_EditPaste,
       S_LANG_LUT_EditFind,
       S_LANG_LUT_EditReplace,
       S_LANG_LUT_View,
       S_LANG_LUT_ViewFocusStatusbar,
       S_LANG_LUT_ViewWordWrap,
       S_LANG_LUT_Help,
       S_LANG_LUT_HelpAbout,
       S_LANG_LUT_UnsavedChangesDialogTitle,
       S_LANG_LUT_UnsavedChangesDialogDescription,
       S_LANG_LUT_UnsavedChangesDialogYes,
       S_LANG_LUT_UnsavedChangesDialogNo,
       S_LANG_LUT_AboutDialogTitle,
       S_LANG_LUT_AboutDialogVersion,
       S_LANG_LUT_LargeClipboardWarningLine1,
       S_LANG_LUT_LargeClipboardWarningLine2,
       S_LANG_LUT_LargeClipboardWarningLine3,
       S_LANG_LUT_SuperLargeClipboardWarning,
       S_LANG_LUT_WarningDialogTitle,
       S_LANG_LUT_ErrorDialogTitle,
       S_LANG_LUT_ErrorIcuMissing,
       S_LANG_LUT_SearchNeedleLabel,
       S_LANG_LUT_SearchReplacementLabel,
       S_LANG_LUT_SearchMatchCase,
       S_LANG_LUT_SearchWholeWord,
       S_LANG_LUT_SearchUseRegex,
       S_LANG_LUT_SearchReplaceAll,
       S_LANG_LUT_SearchClose,
       S_LANG_LUT_EncodingReopen,
       S_LANG_LUT_EncodingConvert,
       S_LANG_LUT_IndentationTabs,
       S_LANG_LUT_IndentationSpaces,
       S_LANG_LUT_SaveAsDialogPathLabel,
       S_LANG_LUT_SaveAsDialogNameLabel,
       S_LANG_LUT_FileOverwriteWarning,
       S_LANG_LUT_FileOverwriteWarningDescription >>

(***************************************************************************)
(* The prefix table of init, in its source order.                          *)
(***************************************************************************)
\* LANG_MAP with the language family "pt" as prefix of the Brazilian variant
LANG_MAP_pt_family ==
    << [prefix |-> <<"e","n">>,                     id |-> "en"],
       [prefix |-> <<"d","e">>,                     id |-> "de"],
       [prefix |-> <<"e","s">>,                     id |-> "es"],
       [prefix |-> <<"f","r">>,                     id |-> "fr"],
       [prefix |-> <<"i","t">>,                     id |-> "it"],
       [prefix |-> <<"j","a">>,                     id |-> "ja"],
       [prefix |-> <<"k","o">>,                     id |-> "ko"],
       [prefix |-> <<"p","t">>,                     id |-> "pt_br"],
       [prefix |-> <<"r","u">>,                     id |-> "ru"],
       [prefix |-> <<"z","h","-","h","a","n","t">>, id |-> "zh_hant"],
       [prefix |-> <<"z","h","-","t","w">>,         id |-> "zh_hant"],
       [prefix |-> <<"z","h">>,                     id |-> "zh_hans"],
       [prefix |-> <<"v","i">>,                     id |-> "vi"] >>

\* LANG_MAP with the broad prefix "zh" placed before the specific ones
LANG_MAP_zh_first ==
    << [prefix |-> <<"e","n">>,                     id |-> "en"],
       [prefix |-> <<"d","e">>,                     id |-> "de"],
       [prefix |-> <<"e","s">>,                     id |-> "es"],
       [prefix |-> <<"f","r">>,                     id |-> "fr"],
       [prefix |-> <<"i","t">>,                     id |-> "it"],
       [prefix |-> <<"j","a">>,                     id |-> "ja"],
       [prefix |-> <<"k","o">>,                     id |-> "ko"],
       [prefix |-> <<"p","t","-","b","r">>,         id |-> "pt_br"],
       [prefix |-> <<"r","u">>,                     id |-> "ru"],
       [prefix |-> <<"z","h">>,                     id |-> "zh_hans"],
       [prefix |-> <<"z","h","-","h","a","n","t">>, id |-> "zh_hant"],
       [prefix |-> <<"z","h","-","t","w">>,         id |-> "zh_hant"],
       [prefix |-> <<"v","i">>,                     id |-> "vi"] >>

LANG_MAP ==
    << [prefix |-> <<"e","n">>,                     id |-> "en"],
       [prefix |-> <<"d","e">>,                     id |-> "de"],
       [prefix |-> <<"e","s">>,                     id |-> "es"],
       [prefix |-> <<"f","r">>,                     id |-> "fr"],
       [prefix |-> <<"i","t">>,                     id |-> "it"],
       [prefix |-> <<"j","a">>,                     id |-> "ja"],
       [prefix |-> <<"k","o">>,                     id |-> "ko"],
       [prefix |-> <<"p","t","-","b","r">>,         id |-> "pt_br"],
       [prefix |-> <<"r","u">>,                     id |-> "ru"],
       [prefix |-> <<"z","h","-","h","a","n","t">>, id |-> "zh_hant"],
       [prefix |-> <<"z","h","-","t","w">>,         id |-> "zh_hant"],
       [prefix |-> <<"z","h">>,                     id |-> "zh_hans"],
       [prefix |-> <<"v","i">>,                     id |-> "vi"] >>

(***************************************************************************)
(* ASCII case folding and the case-insensitive prefix test of              *)
(* edit::helpers::AsciiStringHelpers.                                      *)
(***************************************************************************)
AsciiUpper ==
    << "A","B","C","D","E","F","G","H","I","J","K","L","M",
       "N","O","P","Q","R","S","T","U","V","W","X","Y","Z" >>

AsciiLower ==
    << "a","b","c","d","e","f","g","h","i","j","k","l","m",
       "n","o","p","q","r","s","t","u","v","w","x","y","z" >>

\* the upper-case ASCII letters
AsciiUpperSet == { AsciiUpper[i] : i \in 1..Len(AsciiUpper) }

\* the lower-case letter of every upper-case ASCII letter
AsciiFold ==
    [c \in AsciiUpperSet |->
        AsciiLower[CHOOSE i \in 1..Len(AsciiUpper) : AsciiUpper[i] = c]]

\* an upper-case ASCII letter becomes its lower-case letter, every other
\* character is kept
to_ascii_lowercase(c) == IF c \in AsciiUpperSet THEN AsciiFold[c] ELSE c

\* l.starts_with_ignore_ascii_case(prefix): a tag shorter than the prefix
\* does not match; otherwise the first Len(prefix) characters are compared
\* after ASCII case folding of both sides
starts_with_ignore_ascii_case(l, prefix) ==
    /\ Len(prefix) <= Len(l)
    /\ \A i \in 1..Len(prefix) :
          to_ascii_lowercase(l[i]) = to_ascii_lowercase(prefix[i])

(***************************************************************************)
(* The preference tags sys::preferred_languages may deliver.               *)
(***************************************************************************)
TagPool ==
    { << >>,                                          \* ""
      <<"z">>,                                        \* "z"
      <<"e","n">>,                                    \* "en"
      <<"f","r">>,                                    \* "fr"
      <<"j","a">>,                                    \* "ja"
      <<"e","n","g">>,                                \* "eng"
      <<"p","t">>,                                    \* "pt"
      <<"p","t","-","P","T">>,                        \* "pt-PT"
      <<"p","t","-","B","R">>,                        \* "pt-BR"
      <<"D","E","-","a","t">>,                        \* "DE-at"
      <<"d","e","-","A","T">>,                        \* "de-AT"
      <<"z","h">>,                                    \* "zh"
      <<"z","h","-","s","g">>,                        \* "zh-sg"
      <<"z","h","-","h","a","n","t">>,                \* "zh-hant"
      <<"Z","H","-","H","a","n","t","-","H","K">>,    \* "ZH-Hant-HK"
      <<"z","h","-","T","W">>,                        \* "zh-TW"
      <<"v","i","-","V","N">>,                        \* "vi-VN"
      <<"k","o","k","-","I","N">>,                    \* "kok-IN"
      <<"x","x","-","u","n","k","n","o","w","n">> }   \* "xx-unknown"

\* the message ids the callers of loc are observed with: the first and the
\* last row of the catalog, the two rows of the end-to-end scenario, and the
\* synthetic member Count
LocProbe == { "Ctrl", "Ok", "FileSave", "FileOverwriteWarningDescription", "Count" }

\* the preference sequences of at most MaxPrefs tags
PrefSeqs == UNION { [1..n -> TagPool] : n \in 0..MaxPrefs }

\* the preference sequences a later run of init may get when the run before
\* it got prefs: the same sequence again, or a new one of at most
\* MaxRerunPrefs tags
RerunSeqs(prefs) == { prefs } \cup UNION { [1..n -> TagPool] : n \in 0..MaxRerunPrefs }

(***************************************************************************)
(* State.                                                                  *)
(***************************************************************************)
VARIABLES
    S_LANG,     \* static mut S_LANG: the process-wide selected language
    pc,         \* position of init: "idle" (not called), "loop", "done"
    langs,      \* init's local `langs`, the preference sequence
    l,          \* init's loop position in langs (index of the next tag)
    lang,       \* init's local `lang`
    ret,        \* the last call of loc: its argument, its result, and pc at the call
    panicked,   \* TRUE once an index went out of bounds (the process has aborted)
    writes,     \* history: the number of stores to S_LANG so far
    before,     \* history: S_LANG at the entry of the latest run of init
    same        \* history: the latest run of init was entered again with the
                \* preference sequence of the run before it

vars == << S_LANG, pc, langs, l, lang, ret, panicked, writes, before, same >>

NoCall == [id |-> "none", text |-> "", at |-> "none"]

Init ==
    /\ S_LANG = "en"
    /\ pc = "idle"
    /\ langs = << >>
    /\ l = 1
    /\ lang = "en"
    /\ ret = NoCall
    /\ panicked = FALSE
    /\ writes = 0
    /\ before = "en"
    /\ same = FALSE

(***************************************************************************)
(* init()                                                                  *)
(***************************************************************************)
\* ScanLangMap with the exact, case-sensitive str::starts_with
RECURSIVE ScanLangMap_case_sensitive(_, _, _)
ScanLangMap_case_sensitive(tag, k, cur) ==
    IF k > Len(LANG_MAP) THEN cur
    ELSE IF /\ Len(LANG_MAP[k].prefix) <= Len(tag)
            /\ \A i \in 1..Len(LANG_MAP[k].prefix) : tag[i] = LANG_MAP[k].prefix[i]
         THEN LANG_MAP[k].id
         ELSE ScanLangMap_case_sensitive(tag, k + 1, cur)

\* ScanLangMap that accepts a prefix only at a subtag boundary: the prefix
\* must be the whole tag or be followed by the separator "-"
RECURSIVE ScanLangMap_subtag_boundary(_, _, _)
ScanLangMap_subtag_boundary(tag, k, cur) ==
    IF k > Len(LANG_MAP) THEN cur
    ELSE IF /\ starts_with_ignore_ascii_case(tag, LANG_MAP[k].prefix)
            /\ \/ Len(tag) = Len(LANG_MAP[k].prefix)
               \/ tag[Len(LANG_MAP[k].prefix) + 1] = "-"
         THEN LANG_MAP[k].id
         ELSE ScanLangMap_subtag_boundary(tag, k + 1, cur)

\* ScanLangMap that falls back to the base language for a tag without match
RECURSIVE ScanLangMap_reset(_, _, _)
ScanLangMap_reset(tag, k, cur) ==
    IF k > Len(LANG_MAP) THEN "en"
    ELSE IF starts_with_ignore_ascii_case(tag, LANG_MAP[k].prefix)
         THEN LANG_MAP[k].id
         ELSE ScanLangMap_reset(tag, k + 1, cur)

\* the inner loop `for (prefix, id) in LANG_MAP`, from entry k on: the first
\* entry whose prefix the tag starts with gives the language (and breaks);
\* without a match `lang` keeps its value cur
RECURSIVE ScanLangMap(_, _, _)
ScanLangMap(tag, k, cur) ==
    IF k > Len(LANG_MAP) THEN cur
    ELSE IF starts_with_ignore_ascii_case(tag, LANG_MAP[k].prefix)
         THEN LANG_MAP[k].id
         ELSE ScanLangMap(tag, k + 1, cur)

\* the two loops of init as a function of the preference sequence: the value
\* of `lang` after the tags from position i on were processed, starting at cur
RECURSIVE SelectLang(_, _, _)
SelectLang(prefs, i, cur) ==
    IF i > Len(prefs) THEN cur
    ELSE SelectLang(prefs, i + 1, ScanLangMap(prefs[i], 1, cur))

\* the caller's discipline: init is invoked once, at startup (it may be
\* preceded or accompanied by calls of loc, which the module does not prevent)
InitNotYetInvoked == pc = "idle"

\* InitCall with lang starting at the synthetic member Count as "none yet"
InitCall_count_sentinel ==
    /\ ~panicked
    /\ InitNotYetInvoked
    /\ \E prefs \in PrefSeqs : langs' = prefs
    /\ lang' = "Count"
    /\ l' = 1
    /\ pc' = "loop"
    /\ before' = S_LANG
    /\ same' = FALSE
    /\ UNCHANGED << S_LANG, ret, panicked, writes >>

\* InitCall with lang starting at the first language after the base language
InitCall_wrong_default ==
    /\ ~panicked
    /\ InitNotYetInvoked
    /\ \E prefs \in PrefSeqs : langs' = prefs
    /\ lang' = LangId[2]
    /\ l' = 1
    /\ pc' = "loop"
    /\ before' = S_LANG
    /\ same' = FALSE
    /\ UNCHANGED << S_LANG, ret, panicked, writes >>

\* entry of init: it fetches the preference sequence and sets lang to the
\* base language
InitCall ==
    /\ ~panicked
    /\ InitNotYetInvoked
    /\ \E prefs \in PrefSeqs : langs' = prefs
    /\ lang' = "en"
    /\ l' = 1
    /\ pc' = "loop"
    /\ before' = S_LANG
    /\ same' = FALSE
    /\ UNCHANGED << S_LANG, ret, panicked, writes >>

\* init entered again with lang starting at the language selected so far
InitAgain_from_current ==
    /\ ~panicked
    /\ pc = "done"
    /\ writes < MaxInits
    /\ \E prefs \in RerunSeqs(langs) : langs' = prefs
    /\ lang' = S_LANG
    /\ l' = 1
    /\ pc' = "loop"
    /\ before' = S_LANG
    /\ same' = (langs' = langs)
    /\ UNCHANGED << S_LANG, ret, panicked, writes >>

\* entry of init when it is run again after a run that has returned (the
\* function has no guard against it): the same statements as in InitCall
InitAgain ==
    /\ ~panicked
    /\ pc = "done"
    /\ writes < MaxInits
    /\ \E prefs \in RerunSeqs(langs) : langs' = prefs
    /\ lang' = "en"
    /\ l' = 1
    /\ pc' = "loop"
    /\ before' = S_LANG
    /\ same' = (langs' = langs)
    /\ UNCHANGED << S_LANG, ret, panicked, writes >>

\* InitTag with `break 'outer`: the first matching tag ends both loops
InitTag_break_outer ==
    /\ ~panicked
    /\ pc = "loop"
    /\ l <= Len(langs)
    /\ lang' = ScanLangMap(langs[l], 1, lang)
    /\ l' = IF \E k \in 1..Len(LANG_MAP) :
                    starts_with_ignore_ascii_case(langs[l], LANG_MAP[k].prefix)
             THEN Len(langs) + 1
             ELSE l + 1
    /\ UNCHANGED << S_LANG, pc, langs, ret, panicked, writes, before, same >>

\* InitTag storing every match into S_LANG at once instead of into lang only
InitTag_eager_store ==
    /\ ~panicked
    /\ pc = "loop"
    /\ l <= Len(langs)
    /\ lang' = ScanLangMap(langs[l], 1, lang)
    /\ l' = l + 1
    /\ IF \E k \in 1..Len(LANG_MAP) :
              starts_with_ignore_ascii_case(langs[l], LANG_MAP[k].prefix)
       THEN S_LANG' = lang' /\ writes' = writes + 1
       ELSE UNCHANGED << S_LANG, writes >>
    /\ UNCHANGED << pc, langs, ret, panicked, before, same >>

\* one iteration of `for l in langs`
InitTag ==
    /\ ~panicked
    /\ pc = "loop"
    /\ l <= Len(langs)
    /\ lang' = ScanLangMap(langs[l], 1, lang)
    /\ l' = l + 1
    /\ UNCHANGED << S_LANG, pc, langs, ret, panicked, writes, before, same >>

\* `unsafe { S_LANG = lang; }` and return
InitCommit ==
    /\ ~panicked
    /\ pc = "loop"
    /\ l > Len(langs)
    /\ S_LANG' = lang
    /\ writes' = writes + 1
    /\ pc' = "done"
    /\ UNCHANGED << langs, l, lang, ret, panicked, before, same >>

(***************************************************************************)
(* loc(id)                                                                 *)
(***************************************************************************)
\* loc reading the column of the base language whatever S_LANG is
loc_base_column(id) ==
    LET row == LocIdAsUsize(id)
    IN  IF row >= Len(S_LANG_LUT) THEN [panic |-> TRUE, text |-> ""]
        ELSE [panic |-> FALSE, text |-> S_LANG_LUT[row + 1][1]]

\* loc indexing the row after the one of id
loc_row_off_by_one(id) ==
    LET row == LocIdAsUsize(id) + 1
        col == LangIdAsUsize(S_LANG)
    IN  IF row >= Len(S_LANG_LUT) THEN [panic |-> TRUE, text |-> ""]
        ELSE IF col >= Len(S_LANG_LUT[row + 1]) THEN [panic |-> TRUE, text |-> ""]
        ELSE [panic |-> FALSE, text |-> S_LANG_LUT[row + 1][col + 1]]

\* S_LANG_LUT[id as usize][S_LANG as usize]; an index out of bounds panics
loc(id) ==
    LET row == LocIdAsUsize(id)
        col == LangIdAsUsize(S_LANG)
    IN  IF row >= Len(S_LANG_LUT) THEN [panic |-> TRUE, text |-> ""]
        ELSE IF col >= Len(S_LANG_LUT[row + 1]) THEN [panic |-> TRUE, text |-> ""]
        ELSE [panic |-> FALSE, text |-> S_LANG_LUT[row + 1][col + 1]]

\* Loc that falls back to the base language once it has returned a text
Loc_resets_language ==
    /\ ~panicked
    /\ \E id \in LocProbe :
          /\ ret' = [id |-> id, text |-> loc(id).text, at |-> pc]
          /\ panicked' = loc(id).panic
    /\ S_LANG' = "en"
    /\ UNCHANGED << pc, langs, l, lang, writes, before, same >>

Loc ==
    /\ ~panicked
    /\ \E id \in LocProbe :
          /\ ret' = [id |-> id, text |-> loc(id).text, at |-> pc]
          /\ panicked' = loc(id).panic
    /\ UNCHANGED << S_LANG, pc, langs, l, lang, writes, before, same >>

Next == InitCall \/ InitTag \/ InitCommit \/ Loc

Spec == Init /\ [][Next]_vars

\* init run repeatedly, without readers (loc changes no variable that init
\* reads or writes)
NextReinit == InitCall \/ InitAgain \/ InitTag \/ InitCommit

SpecReinit == Init /\ [][NextReinit]_vars

TypeOK ==
    /\ S_LANG \in LangIdValues
    /\ pc \in {"idle", "loop", "done"}
    /\ langs \in PrefSeqs
    /\ l \in 1..(Len(langs) + 1)
    /\ lang \in LangIdValues
    /\ panicked \in BOOLEAN
    /\ writes \in 0..1
    /\ ret.id \in LocIdValues \cup {"none"}

(***************************************************************************)
(* Vocabulary of the properties.                                           *)
(***************************************************************************)
\* the 56 real message ids and the 12 real languages
RealLocIds == LocIdValues \ {"Count"}

RealLangIds == LangIdValues \ {"Count"}

\* a tag with every ASCII letter lower-cased
FoldTag(tag) == [i \in 1..Len(tag) |-> to_ascii_lowercase(tag[i])]

\* the tag begins with the (lower-case) prefix p once it is case-folded
BeginsWith(tag, p) ==
    Len(tag) >= Len(p) /\ \A i \in 1..Len(p) : to_ascii_lowercase(tag[i]) = p[i]

\* the entries of LANG_MAP (by position) whose prefix the tag begins with
MatchingEntries(tag) == { k \in 1..Len(LANG_MAP) : BeginsWith(tag, LANG_MAP[k].prefix) }

\* the positions of a preference sequence whose tag matches some entry
MatchingTags(prefs) == { i \in 1..Len(prefs) : MatchingEntries(prefs[i]) # {} }

SetMax(S) == CHOOSE x \in S : \A y \in S : y <= x

SetMin(S) == CHOOSE x \in S : \A y \in S : x <= y

\* C1: once init has committed, S_LANG is the language of the first LANG_MAP
\* entry (in table order) matched by the LAST tag of the preference sequence
\* that matches any entry, and the base language en when no tag matches.
C1_LastMatchWins ==
    pc = "done" =>
        IF MatchingTags(langs) = {}
        THEN S_LANG = "en"
        ELSE S_LANG = LANG_MAP[SetMin(MatchingEntries(langs[SetMax(MatchingTags(langs))]))].id

\* init committed for the sequence ["fr", "ja"], and ja was chosen
C1_Witness ==
    /\ pc = "done"
    /\ langs = << <<"f","r">>, <<"j","a">> >>
    /\ S_LANG = "ja"

\* the catalog cell of message id in language lg
Cell(id, lg) == S_LANG_LUT[LocIdAsUsize(id) + 1][LangIdAsUsize(lg) + 1]

\* C2: after init ran with the preference sequence ["pt-BR", "en"], the
\* committed language is pt_br, loc(Ok) returns "OK" and loc(FileSave)
\* returns "Salvar".
C2_EndToEnd ==
    (pc = "done" /\ langs = << <<"p","t","-","B","R">>, <<"e","n">> >>) =>
        /\ S_LANG = "pt_br"
        /\ loc("Ok").text = "OK"
        /\ loc("FileSave").text = "Salvar"

\* C3: when init ran with the empty preference sequence, the committed
\* language is the base language en and loc(id) is the en entry of the row of
\* id, for every message id.
C3_DefaultFallback ==
    (pc = "done" /\ langs = << >>) =>
        /\ S_LANG = "en"
        /\ \A id \in RealLocIds :
              loc(id) = [panic |-> FALSE, text |-> S_LANG_LUT[LocIdAsUsize(id) + 1][1]]
        /\ (ret.at = "done" /\ ret.id \in RealLocIds) =>
              ret.text = S_LANG_LUT[LocIdAsUsize(ret.id) + 1][1]

\* init committed for the empty sequence and loc(FileSave) then returned "Save"
C3_Witness ==
    /\ pc = "done"
    /\ langs = << >>
    /\ S_LANG = "en"
    /\ ret = [id |-> "FileSave", text |-> "Save", at |-> "done"]

\* C4: the specific prefixes zh-hant and zh-tw are tested before the broad
\* prefix zh: when the deciding (last matching) tag begins, in any case, with
\* "zh-hant" or "zh-tw", init commits zh_hant; when it begins with "zh" but
\* with neither of them, init commits zh_hans.
C4_PrefixPriority ==
    (pc = "done" /\ MatchingTags(langs) # {}) =>
        LET tag == langs[SetMax(MatchingTags(langs))]
            specific == \/ BeginsWith(tag, <<"z","h","-","h","a","n","t">>)
                        \/ BeginsWith(tag, <<"z","h","-","t","w">>)
        IN  /\ specific => S_LANG = "zh_hant"
            /\ (BeginsWith(tag, <<"z","h">>) /\ ~specific) => S_LANG = "zh_hans"

\* init committed zh_hant for ["zh-sg", "ZH-Hant-HK"]
C4_Witness ==
    /\ pc = "done"
    /\ langs = << <<"z","h","-","s","g">>, <<"Z","H","-","H","a","n","t","-","H","K">> >>
    /\ S_LANG = "zh_hant"

AsciiUnfold ==
    [c \in { AsciiLower[i] : i \in 1..Len(AsciiLower) } |->
        AsciiUpper[CHOOSE i \in 1..Len(AsciiLower) : AsciiLower[i] = c]]

to_ascii_uppercase(c) == IF c \in DOMAIN AsciiUnfold THEN AsciiUnfold[c] ELSE c

\* the tag with the ASCII case of its j-th character flipped
FlipCaseAt(tag, j) ==
    [tag EXCEPT ![j] = IF to_ascii_lowercase(tag[j]) = tag[j]
                       THEN to_ascii_uppercase(tag[j])
                       ELSE to_ascii_lowercase(tag[j])]

\* re-spellings of a tag that differ from it in ASCII case only: all lower
\* case, all upper case, one character flipped, and the tags of TagPool of the
\* same spelling; every re-casing is a chain of one-character flips
CaseVariants(tag) ==
    { FoldTag(tag), [i \in 1..Len(tag) |-> to_ascii_uppercase(tag[i])] }
        \cup { FlipCaseAt(tag, j) : j \in 1..Len(tag) }
        \cup { t \in TagPool : FoldTag(t) = FoldTag(tag) }

\* the tag in alternating case: the characters at the odd positions in upper
\* case and the others in lower case (odd = TRUE), or the other way round
AlternateCase(tag, odd) ==
    [i \in 1..Len(tag) |->
        IF (i % 2 = 1) = odd THEN to_ascii_uppercase(tag[i]) ELSE to_ascii_lowercase(tag[i])]

\* four re-casings of every tag of TagPool: all lower case, all upper case,
\* and the two alternating ones
PoolRecasings ==
    [tag \in TagPool |->
        << FoldTag(tag),
           [i \in 1..Len(tag) |-> to_ascii_uppercase(tag[i])],
           AlternateCase(tag, TRUE),
           AlternateCase(tag, FALSE) >>]

\* the preference sequence with every tag in its v-th re-casing
Recased(prefs, v) == [i \in 1..Len(prefs) |-> PoolRecasings[prefs[i]][v]]

\* C5: the committed language does not depend on the ASCII case of the tags:
\* for the preference sequence with every tag lower-cased (the form shared by
\* all sequences that are equal up to case, such as "DE-at" and "de-AT"),
\* upper-cased, or put in either alternating case, init selects the language
\* it committed for the sequence itself.
C5_CaseInsensitive ==
    pc = "done" =>
        \A v \in 1..4 : SelectLang(Recased(langs, v), 1, "en") = S_LANG

\* init committed de for ["DE-at"], a tag that differs in case from the
\* prefix "de" and from the tag "de-AT"
C5_Witness ==
    /\ pc = "done"
    /\ langs = << <<"D","E","-","a","t">> >>
    /\ <<"d","e","-","A","T">> \in CaseVariants(langs[1])
    /\ Recased(langs, 1) = Recased(<< <<"d","e","-","A","T">> >>, 1)
    /\ S_LANG = "de"

\* the tag begins with no prefix of LANG_MAP
UnknownTag(tag) == MatchingEntries(tag) = {}

\* the tags of TagPool that begin with no prefix of LANG_MAP
UnknownTags == { t \in TagPool : UnknownTag(t) }

RemoveAt(prefs, i) == SubSeq(prefs, 1, i - 1) \o SubSeq(prefs, i + 1, Len(prefs))

InsertAt(prefs, i, tag) == SubSeq(prefs, 1, i - 1) \o << tag >> \o SubSeq(prefs, i, Len(prefs))

\* C6: a tag that begins with no LANG_MAP prefix has no effect: removing such
\* a tag from the preference sequence, or inserting one at any position (into
\* a sequence that has room for it within MaxPrefs), makes init select the
\* language it committed; a sequence of such tags only commits en; and
\* running init raises no error (the only abort of the module is the one of
\* loc(Count)).
C6_UnknownIgnored ==
    /\ pc = "done" =>
          /\ \A i \in 1..Len(langs) :
                UnknownTag(langs[i]) => SelectLang(RemoveAt(langs, i), 1, "en") = S_LANG
          /\ Len(langs) < MaxPrefs =>
                \A i \in 1..(Len(langs) + 1) : \A t \in UnknownTags :
                    SelectLang(InsertAt(langs, i, t), 1, "en") = S_LANG
          /\ (\A i \in 1..Len(langs) : UnknownTag(langs[i])) => S_LANG = "en"
    /\ panicked => ret.id = "Count"

\* init committed fr for ["fr", "xx-unknown"]: the unknown tag after the
\* match changed nothing
C6_Witness ==
    /\ pc = "done"
    /\ langs = << <<"f","r">>, <<"x","x","-","u","n","k","n","o","w","n">> >>
    /\ UnknownTag(langs[2])
    /\ S_LANG = "fr"
    /\ ~panicked

\* C7: in every state after init has committed, loc(id) returns, for every
\* message id, exactly the catalog cell of id in the committed language
\* S_LANG (whether or not it equals the base-language text), and a call of loc
\* made after the commit returned that cell.
C7_AccessorContract ==
    pc = "done" =>
        /\ \A id \in RealLocIds : loc(id) = [panic |-> FALSE, text |-> Cell(id, S_LANG)]
        /\ (ret.at = "done" /\ ret.id \in RealLocIds) => ret.text = Cell(ret.id, S_LANG)

\* after init committed pt_br, loc(FileSave) returned "Salvar", which is not
\* the base-language text "Save"
C7_Witness ==
    /\ pc = "done"
    /\ S_LANG = "pt_br"
    /\ ret = [id |-> "FileSave", text |-> "Salvar", at |-> "done"]
    /\ ret.text # Cell("FileSave", "en")

\* C8 as stated: no call of loc, with any value of the type LocId, and no run
\* of init ever panics.
C8_NoPanic == ~panicked

\* the table has 56 rows of 12 columns each
TableIs56By12 ==
    /\ Len(S_LANG_LUT) = 56
    /\ \A r \in 1..Len(S_LANG_LUT) : Len(S_LANG_LUT[r]) = 12

\* the row index of every real message id is below 56
RealIdsBelow56 == \A id \in RealLocIds : LocIdAsUsize(id) < 56

\* C8 amended: loc(id) panics for no real message id (every LocId but the
\* synthetic Count) in any language S_LANG can hold, its row index is below
\* the 56 rows and its column index below the 12 columns of the table, and
\* init panics for no preference sequence; the only panic is the one of
\* loc(Count), whose row index 56 is out of bounds.
C8_NoPanicRealIds ==
    /\ TableIs56By12
    /\ LangIdAsUsize(S_LANG) < 12
    /\ RealIdsBelow56
    /\ \A id \in RealLocIds : ~loc(id).panic
    /\ loc("Count").panic
    /\ panicked => ret.id = "Count"

\* init ran to its end on the tags "" and "z", both shorter than every
\* prefix, and loc then returned for the last row of the table
C8_Witness ==
    /\ pc = "done"
    /\ langs = << << >>, <<"z">> >>
    /\ ret.id = "FileOverwriteWarningDescription"
    /\ ret.at = "done"
    /\ ~panicked

\* C9: S_LANG is stored exactly once, by the commit of init; in every state
\* after the commit it keeps the committed value, whatever step is taken.
C9_SelectOnce ==
    /\ [](writes <= 1 /\ (pc = "done" <=> writes = 1))
    /\ [][pc = "done" => S_LANG' = S_LANG]_vars
    /\ [][S_LANG' # S_LANG => (pc = "loop" /\ pc' = "done")]_vars

\* init committed ja, a call of loc followed, and S_LANG is still ja after
\* its single store
C9_Witness ==
    /\ pc = "done"
    /\ writes = 1
    /\ S_LANG = "ja"
    /\ ret.at = "done"

\* the shape and the cells of the catalog
CatalogIsTotal ==
    /\ LocIdAsUsize("Count") = 56
    /\ LangIdAsUsize("Count") = 12
    /\ Len(S_LANG_LUT) = LocIdAsUsize("Count")
    /\ \A id \in RealLocIds :
          /\ Len(S_LANG_LUT[LocIdAsUsize(id) + 1]) = LangIdAsUsize("Count")
          /\ \A lg \in RealLangIds : Cell(id, lg) # ""

\* C10: the catalog has a row for each of the 56 message ids and in each row
\* a cell for each of the 12 languages, and no cell is the empty string; so
\* no call of loc that returned has returned an empty text.
C10_Totality ==
    /\ CatalogIsTotal
    /\ (ret.id \in RealLocIds) => ret.text # ""

\* loc returned the cell of the last row and the last column, a non-empty text
C10_Witness ==
    /\ S_LANG = "vi"
    /\ ret.id = "FileOverwriteWarningDescription"
    /\ ret.at = "done"
    /\ ret.text = Cell("FileOverwriteWarningDescription", "vi")
    /\ ret.text # ""

\* C11: a call of loc changes neither S_LANG nor any variable of init, and
\* it returns the text loc yields for its argument in the state it is called
\* in; after init has committed, the text loc yields for an id is the same
\* before and after every step, so two calls with the same id return the same
\* text whatever calls of loc lie between them.
C11_LocPureRead ==
    /\ [][ret' # ret =>
            /\ S_LANG' = S_LANG
            /\ << pc, langs, l, lang, writes >>' = << pc, langs, l, lang, writes >>
            /\ ret'.text = loc(ret'.id).text]_vars
    /\ [][pc = "done" => \A id \in RealLocIds : loc(id)' = loc(id)]_vars

\* after the commit of ja a call loc(FileSave) returned the text loc yields
\* for FileSave, which is not the base-language text
C11_Witness ==
    /\ pc = "done"
    /\ S_LANG = "ja"
    /\ ret.id = "FileSave"
    /\ ret.at = "done"
    /\ ret.text = loc("FileSave").text
    /\ ret.text # Cell("FileSave", "en")

\* C12: in every state, before, during and after init, S_LANG (and the local
\* lang that is committed into it) is one of the 12 real languages, never the
\* synthetic LangId::Count, so the column index of loc is below 12.
C12_LangInRange ==
    /\ S_LANG \in RealLangIds
    /\ lang \in RealLangIds
    /\ S_LANG # "Count"
    /\ LangIdAsUsize(S_LANG) < 12

\* init committed vi, the language of the highest column index 11
C12_Witness ==
    /\ pc = "done"
    /\ S_LANG = "vi"
    /\ LangIdAsUsize(S_LANG) = 11

\* the tag belongs to the Portuguese family but is not the Brazilian variant:
\* it begins with "pt" and not with "pt-br"
PortugueseNotBrazilian(tag) ==
    BeginsWith(tag, <<"p","t">>) /\ ~BeginsWith(tag, <<"p","t","-","b","r">>)

\* C13: a tag is matched by the literal prefixes of LANG_MAP only: a tag of
\* the Portuguese family that does not begin with "pt-br" ("pt", "pt-PT")
\* leaves lang as it was when init processes it, removing it from the
\* preference sequence selects the committed language, and a sequence of such
\* tags only commits the base language en.
C13_NoFamilyFallback ==
    /\ [][(pc = "loop" /\ l' = l + 1 /\ PortugueseNotBrazilian(langs[l])) => lang' = lang]_vars
    /\ [](pc = "done" =>
            /\ \A i \in 1..Len(langs) :
                  PortugueseNotBrazilian(langs[i]) =>
                      SelectLang(RemoveAt(langs, i), 1, "en") = S_LANG
            /\ (Len(langs) > 0 /\ \A i \in 1..Len(langs) : PortugueseNotBrazilian(langs[i]))
                  => S_LANG = "en")

\* init committed ja for ["ja", "pt-PT"]: the Portuguese tag after the match
\* selected nothing
C13_Witness ==
    /\ pc = "done"
    /\ langs = << <<"j","a">>, <<"p","t","-","P","T">> >>
    /\ PortugueseNotBrazilian(langs[2])
    /\ S_LANG = "ja"

\* the entries of LANG_MAP whose prefix the tag begins with and continues
\* with a character other than the separator "-"
EntriesWithoutBoundary(tag) ==
    { k \in MatchingEntries(tag) :
        /\ Len(tag) > Len(LANG_MAP[k].prefix)
        /\ tag[Len(LANG_MAP[k].prefix) + 1] # "-" }

\* C16: a tag matches an entry as soon as it begins with the prefix, whatever
\* follows: when the last tag of the preference sequence begins with a prefix
\* and goes on with a character other than "-" ("kok-IN" for "ko", "eng" for
\* "en"), and that entry is the first one the tag matches, init commits the
\* language of that entry.
C16_NoTagBoundary ==
    (pc = "done" /\ Len(langs) > 0) =>
        LET tag == langs[Len(langs)]
        IN  \A k \in EntriesWithoutBoundary(tag) :
                k = SetMin(MatchingEntries(tag)) => S_LANG = LANG_MAP[k].id

\* init committed ko for ["fr", "kok-IN"], the tag of the Konkani language
C16_Witness ==
    /\ pc = "done"
    /\ langs = << <<"f","r">>, <<"k","o","k","-","I","N">> >>
    /\ EntriesWithoutBoundary(langs[2]) # {}
    /\ S_LANG = "ko"

\* C14: init stores S_LANG once, at its end: while init has not committed,
\* S_LANG is en whatever lang holds, and every call of loc made before or
\* during init returns the en text; a call made after the commit returns the
\* text of the committed language.  So no call ever returns the text of an
\* intermediate match that a later tag overrode.
C14_SingleCommitWrite ==
    /\ [](/\ writes <= 1
          /\ pc # "done" => (S_LANG = "en" /\ writes = 0)
          /\ (ret.id \in RealLocIds /\ ret.at \in {"idle", "loop"})
                => ret.text = Cell(ret.id, "en")
          /\ (ret.id \in RealLocIds /\ ret.at = "done")
                => (pc = "done" /\ ret.text = Cell(ret.id, S_LANG)))
    /\ [][(ret' # ret /\ pc # "done" /\ ret'.id \in RealLocIds)
            => ret'.text = Cell(ret'.id, "en")]_vars

\* init runs on ["fr", "ja"] and holds the intermediate match fr in lang
\* (which ja will override); S_LANG is still en and the call loc(FileSave)
\* made during the loop returned the en text "Save", not "Enregistrer"
C14_Witness ==
    /\ pc = "loop"
    /\ langs = << <<"f","r">>, <<"j","a">> >>
    /\ l = 2
    /\ lang = "fr"
    /\ S_LANG = "en"
    /\ ret = [id |-> "FileSave", text |-> "Save", at |-> "loop"]
    /\ Cell("FileSave", "fr") # "Save"

\* C15: whenever a run of init has committed, be it the first run or a later
\* one, S_LANG is the language the loops select for the preference sequence
\* of that run starting from en, whatever S_LANG was before: every run starts
\* its loops with lang = en; a run on the sequence of the run before it
\* commits the language that was committed before; and a run on an empty or
\* all-unmatched sequence commits en.
C15_HistoryIndependent ==
    /\ (pc = "loop" /\ l = 1) => lang = "en"
    /\ pc = "done" =>
          /\ S_LANG = SelectLang(langs, 1, "en")
          /\ same => S_LANG = before
          /\ MatchingTags(langs) = {} => S_LANG = "en"

\* a second run of init, on ["xx-unknown"], committed en over the ja that the
\* first run had committed
C15_Witness ==
    /\ pc = "done"
    /\ writes = 2
    /\ before = "ja"
    /\ langs = << <<"x","x","-","u","n","k","n","o","w","n">> >>
    /\ S_LANG = "en"
====
